---------------------------- MODULE Spec2Model ----------------------------
(***************************************************************************)
(* Community-scoped similarity engine of model_optimised.py.               *)
(*                                                                         *)
(* The graph store is the shared state: SubjectNodes with their community  *)
(* property, their RELATIONSHIP neighbours, and the directed SIMILAR_TO    *)
(* edges that serve as the similarity cache.  Every client runs the        *)
(* functions of the file one store call (tx.run) at a time; the writes of  *)
(* a client's transaction become visible to the others when the           *)
(* transaction function returns.                                           *)
(*                                                                         *)
(* Scores are Python floats in the source; here they are exact rationals   *)
(* <<numerator, denominator>> in lowest terms.                             *)
(***************************************************************************)
EXTENDS Integers, Sequences, FiniteSets, TLC

----------------------------------------------------------------------------
(* Bounds of the model *)

NumComms == 2
MaxK == 2

(* Program constant: the default of top_k *)
DefaultTopK == 10

----------------------------------------------------------------------------
(* Identifiers are strings, modelled as sequences of characters, so that   *)
(* strip()/TRIM act on them as they do in the source.                      *)

(* The SubjectNodes of the graph, the ObjectNodes, and the clients *)
Subjects == {<<"A">>, <<"B">>, <<"C">>}
Objects == {"x", "y"}
Procs == {"p", "q"}

Space == " "
PaddedId == <<Space, "A">>
UnknownId == <<"Z">>
Inputs == Subjects \cup {PaddedId, UnknownId}
TopKs == (0..MaxK) \cup {DefaultTopK}

(* Python None / a query that returns no record *)
None == <<>>
NoCommunity == 0

----------------------------------------------------------------------------
(* Rational arithmetic for the float scores *)

RECURSIVE GCD(_, _)
GCD(a, b) == IF b = 0 THEN a ELSE GCD(b, a % b)

Norm(n, d) == LET g == GCD(n, d) IN <<n \div g, d \div g>>

Zero == <<0, 1>>
One == <<1, 1>>

RAdd(x, y) == Norm(x[1] * y[2] + y[1] * x[2], x[2] * y[2])
RLeq(x, y) == x[1] * y[2] <= y[1] * x[2]
RLess(x, y) == x[1] * y[2] < y[1] * x[2]
RMin(x, y) == IF RLeq(x, y) THEN x ELSE y
RTenth(x) == Norm(x[1], x[2] * 10)

(* The scores a caller hands to create_similarity_relationship *)
Scores == {Zero, Norm(1, 2), One}


----------------------------------------------------------------------------
(* Sequences *)

Range(s) == {s[n] : n \in 1..Len(s)}

Perms(S) == {s \in [1..Cardinality(S) -> S] : Range(s) = S}

(* A removal that removes nothing *)
RemoveNothing(s, x) == s

(* list.remove(x): drops the first occurrence of x *)
Remove(s, x) ==
    LET first == CHOOSE n \in 1..Len(s) : s[n] = x /\ \A m \in 1..(n - 1) : s[m] # x
    IN [n \in 1..(Len(s) - 1) |-> IF n < first THEN s[n] ELSE s[n + 1]]

(* str.strip() / Cypher TRIM: drops leading and trailing whitespace *)
RECURSIVE LStrip(_)
LStrip(s) == IF s # <<>> /\ Head(s) = Space THEN LStrip(Tail(s)) ELSE s

RECURSIVE RStrip(_)
RStrip(s) ==
    IF s # <<>> /\ s[Len(s)] = Space THEN RStrip(SubSeq(s, 1, Len(s) - 1)) ELSE s

Strip(s) == RStrip(LStrip(s))

(* list.sort(key = similarity, reverse = True): stable, descending *)
RECURSIVE InsertDesc(_, _)
InsertDesc(sorted, x) ==
    IF sorted = <<>> THEN <<x>>
    ELSE IF RLess(Head(sorted).similarity, x.similarity)
         THEN <<x>> \o sorted
         ELSE <<Head(sorted)>> \o InsertDesc(Tail(sorted), x)

(* A sort that leaves the list as it is *)
NoSort(s) == s

RECURSIVE SortDesc(_)
SortDesc(s) ==
    IF s = <<>> THEN <<>>
    ELSE InsertDesc(SortDesc(SubSeq(s, 1, Len(s) - 1)), s[Len(s)])

(* A slice that keeps one entry too many *)
TruncateOneMore(s, k) == SubSeq(s, 1, IF k + 1 < Len(s) THEN k + 1 ELSE Len(s))

(* similarities[:top_k] for top_k >= 0 *)
Truncate(s, k) == SubSeq(s, 1, IF k < Len(s) THEN k ELSE Len(s))

----------------------------------------------------------------------------
(* The graph store *)

VARIABLES
    projected,  \* whether the GDS graph 'clinicalTrialsGraph' exists
    comm,       \* SubjectNode name -> community property (NoCommunity: null)
    nbrs,       \* SubjectNode name -> names of its ObjectNode neighbours
    cache,      \* committed SIMILAR_TO edges: <<n1, n2>> -> similarity or None
    proc        \* per client: position, locals and uncommitted writes

vars == <<projected, comm, nbrs, cache, proc>>

Pairs == Subjects \X Subjects
NoEdges == [e \in Pairs |-> None]
EmptyMap == [m \in {} |-> Zero]


(* An overlay in which an edge already committed keeps its score *)
OverlayKeepsBase(base, writes) ==
    [e \in Pairs |-> IF base[e] # None THEN base[e] ELSE writes[e]]

(* What a transaction reads: the committed edges under its own writes *)
Overlay(base, writes) ==
    [e \in Pairs |-> IF writes[e] # None THEN writes[e] ELSE base[e]]

get_node_community(trial_id) ==
    IF trial_id \in Subjects THEN comm[trial_id] ELSE NoCommunity

get_community_members(community_id) ==
    {n \in Subjects : comm[n] = community_id}

get_cached_similarity(edges, trial1, trial2) ==
    IF trial1 \in Subjects /\ trial2 \in Subjects
    THEN edges[<<trial1, trial2>>]
    ELSE None

get_node_neighbors(trial_id) ==
    IF trial_id \in Subjects THEN nbrs[trial_id] ELSE {}

(* A map that holds every member, a member without a cached score at 1.0 *)
intermediate_similarities_of_all(edges, trial_id, community_members) ==
    [m \in Range(community_members)
        |-> IF get_cached_similarity(edges, trial_id, m) # None
            THEN edges[<<trial_id, m>>]
            ELSE One]

get_intermediate_similarities(edges, trial_id, community_members) ==
    [m \in {n \in Range(community_members) :
                get_cached_similarity(edges, trial_id, n) # None}
        |-> edges[<<trial_id, m>>]]

(* A write of the edge n1 -> n2 alone *)
create_one_direction(edges, trial1, trial2, similarity) ==
    IF trial1 \in Subjects /\ trial2 \in Subjects
    THEN [e \in Pairs |->
            IF e = <<trial1, trial2>> THEN similarity ELSE edges[e]]
    ELSE edges

create_similarity_relationship(edges, trial1, trial2, similarity) ==
    IF trial1 \in Subjects /\ trial2 \in Subjects
    THEN [e \in Pairs |->
            IF e = <<trial1, trial2>> \/ e = <<trial2, trial1>>
            THEN similarity
            ELSE edges[e]]
    ELSE edges

check_node_exists(node_name) == Strip(Strip(node_name)) \in Subjects

----------------------------------------------------------------------------
(* Clients.  A frame holds the position and the locals of the call in      *)
(* progress; result and outcome are what the last call handed back.        *)

IdleFrame ==
    [pc |-> "idle", op |-> "none", trial_id |-> <<>>, trial2 |-> <<>>,
     top_k |-> 0,
     community_id |-> NoCommunity, community_members |-> <<>>,
     intermediate_sims |-> EmptyMap, similarities |-> <<>>, i |-> 0,
     neighbors1 |-> {}, base_jaccard |-> Zero, boost_factor |-> Zero,
     j |-> 0, sim_to_intermediate |-> None, similarity |-> None,
     txw |-> NoEdges, result |-> <<>>, outcome |-> "none"]

InQuery(f) ==
    f.pc \in {"community", "members", "intermediate", "cached", "neighbors1",
              "neighbors2", "inter", "other", "put", "return"}

(* The edges client p reads *)
View(p) == Overlay(cache, proc[p].txw)

(* trial1, trial2 of the compute_optimized_jaccard call in progress *)
Trial1(f) == f.trial_id
Trial2(f) == f.community_members[f.i]

(* What a finished call leaves in the frame *)
Finished(f, result, outcome) ==
    [IdleFrame EXCEPT !.pc = "done", !.op = f.op, !.trial_id = f.trial_id,
                      !.top_k = f.top_k,
                      !.community_members = f.community_members,
                      !.similarities = f.similarities,
                      !.result = result, !.outcome = outcome]

(* Lines 153-155: the next iteration of the loop over the members, or the  *)
(* end of the loop.                                                        *)
NextMember(f, similarity) ==
    LET appended ==
            Append(f.similarities,
                   [trial |-> Trial2(f), similarity |-> similarity])
    IN [f EXCEPT !.similarities = appended,
                 !.i = f.i + 1,
                 !.neighbors1 = {}, !.base_jaccard = Zero,
                 !.boost_factor = Zero, !.j = 0,
                 !.sim_to_intermediate = None, !.similarity = None,
                 !.pc = IF f.i + 1 > Len(f.community_members)
                        THEN "return" ELSE "cached"]

(* A final score without the cap *)
FinalScoreNoCap(base_jaccard, boost_factor) == RAdd(base_jaccard, boost_factor)

(* Line 135 *)
FinalScore(base_jaccard, boost_factor) ==
    RMin(One, RAdd(base_jaccard, boost_factor))

(* Line 133 *)
Boost(sim_to_intermediate, other_sim) ==
    RTenth(RMin(sim_to_intermediate, other_sim))

(* Lines 120-135: the boost loop up to its next store call.  Members that  *)
(* are trial1 or trial2 are skipped; a member found in intermediate_sims   *)
(* goes on to the lookup of line 131, another to the lookup of line 127;   *)
(* after the last member the similarity is capped at 1.0.                  *)
RECURSIVE BoostLoop(_, _)
BoostLoop(f, j) ==
    IF j > Len(f.community_members)
    THEN [f EXCEPT !.j = 0, !.sim_to_intermediate = None,
                   !.similarity = FinalScore(f.base_jaccard, f.boost_factor),
                   !.pc = "put"]
    ELSE LET intermediate_trial == f.community_members[j] IN
         IF intermediate_trial \in {Trial1(f), Trial2(f)}
         THEN BoostLoop(f, j + 1)
         ELSE IF intermediate_trial \in DOMAIN f.intermediate_sims
              THEN [f EXCEPT !.j = j,
                             !.sim_to_intermediate =
                                 f.intermediate_sims[intermediate_trial],
                             !.pc = "other"]
              ELSE [f EXCEPT !.j = j, !.sim_to_intermediate = None,
                             !.pc = "inter"]

(* A score that runs the boost loop on an empty union too *)
JaccardBoostsEmptyUnion(f, neighbors1, neighbors2) ==
    LET intersection == neighbors1 \cap neighbors2
        union == neighbors1 \cup neighbors2
    IN BoostLoop([f EXCEPT !.base_jaccard =
                               IF Cardinality(union) = 0
                               THEN Zero
                               ELSE Norm(Cardinality(intersection),
                                         Cardinality(union)),
                           !.boost_factor = Zero], 1)

(* Lines 111-119: base Jaccard of the two neighbour sets, then the boost   *)
(* loop; an empty union gives 0.0 and skips the loop.                      *)
Jaccard(f, neighbors1, neighbors2) ==
    LET intersection == neighbors1 \cap neighbors2
        union == neighbors1 \cup neighbors2
    IN IF Cardinality(union) = 0
       THEN [f EXCEPT !.similarity = Zero, !.pc = "put"]
       ELSE BoostLoop([f EXCEPT !.base_jaccard =
                                    Norm(Cardinality(intersection),
                                         Cardinality(union)),
                                !.boost_factor = Zero], 1)

Init ==
    /\ projected = FALSE
    /\ comm = [n \in Subjects |-> NoCommunity]
    /\ nbrs \in [Subjects -> SUBSET Objects]
    /\ cache = NoEdges
    /\ proc = [p \in Procs |-> IdleFrame]

----------------------------------------------------------------------------
(* main *)

(* A clustering that also deletes the cached scores *)
MainClusterDropsCache(p) ==
    /\ proc[p].pc = "idle"
    /\ projected' = TRUE
    /\ comm' \in [Subjects -> 1..NumComms]
    /\ cache' = NoEdges
    /\ proc' = [proc EXCEPT ![p] = [IdleFrame EXCEPT !.pc = "input",
                                                      !.op = "main"]]
    /\ UNCHANGED nbrs

(* Lines 173-181: (re)project the graph, then Louvain writes a community   *)
(* on every node.                                                          *)
MainCluster(p) ==
    /\ proc[p].pc = "idle"
    /\ projected' = TRUE
    /\ comm' \in [Subjects -> 1..NumComms]
    /\ proc' = [proc EXCEPT ![p] = [IdleFrame EXCEPT !.pc = "input",
                                                      !.op = "main"]]
    /\ UNCHANGED <<nbrs, cache>>

(* A main that starts the query without the existence check *)
MainQueryNoCheck(p) ==
    /\ proc[p].pc = "input"
    /\ \E trial_id \in Inputs :
          proc' = [proc EXCEPT ![p] =
                      [IdleFrame EXCEPT !.pc = "community",
                                        !.op = "main",
                                        !.trial_id = trial_id,
                                        !.top_k = DefaultTopK]]
    /\ UNCHANGED <<projected, comm, nbrs, cache>>

(* Lines 184-192: read the identifier, give up on an unknown one, else     *)
(* start the query with the identifier as typed and the default top_k.     *)
MainQuery(p) ==
    /\ proc[p].pc = "input"
    /\ \E trial_id \in Inputs :
          proc' = [proc EXCEPT ![p] =
                      IF ~check_node_exists(trial_id)
                      THEN [IdleFrame EXCEPT !.pc = "done",
                                             !.op = "main",
                                             !.trial_id = trial_id,
                                             !.top_k = DefaultTopK,
                                             !.outcome = "unknown"]
                      ELSE [IdleFrame EXCEPT !.pc = "community",
                                             !.op = "main",
                                             !.trial_id = trial_id,
                                             !.top_k = DefaultTopK]]
    /\ UNCHANGED <<projected, comm, nbrs, cache>>

----------------------------------------------------------------------------
(* find_similar_trials_optimized *)

(* Line 140: a call with any identifier and any top_k *)
Call(p) ==
    /\ proc[p].pc = "idle"
    /\ \E trial_id \in Inputs, top_k \in TopKs :
          proc' = [proc EXCEPT ![p] =
                      [IdleFrame EXCEPT !.pc = "community",
                                        !.op = "find",
                                        !.trial_id = trial_id,
                                        !.top_k = top_k]]
    /\ UNCHANGED <<projected, comm, nbrs, cache>>

(* A lookup that goes on with a null community *)
GetCommunityNoCheck(p) ==
    LET f == proc[p] IN
    /\ f.pc = "community"
    /\ proc' = [proc EXCEPT ![p] =
                   [f EXCEPT !.community_id = get_node_community(f.trial_id),
                             !.pc = "members"]]
    /\ UNCHANGED <<projected, comm, nbrs, cache>>

(* Lines 141-143 *)
GetCommunity(p) ==
    LET f == proc[p]
        community_id == get_node_community(f.trial_id)
    IN /\ f.pc = "community"
       /\ proc' = [proc EXCEPT ![p] =
                      IF community_id = NoCommunity
                      THEN Finished(f, <<>>, "ok")
                      ELSE [f EXCEPT !.community_id = community_id,
                                     !.pc = "members"]]
       /\ UNCHANGED <<projected, comm, nbrs, cache>>

(* Lines 145-147: the store returns the members in some order *)
GetMembers(p) ==
    LET f == proc[p] IN
    /\ f.pc = "members"
    /\ \E members \in Perms(get_community_members(f.community_id)) :
          proc' = [proc EXCEPT ![p] =
                      [f EXCEPT !.community_members =
                                    IF f.trial_id \in Range(members)
                                    THEN Remove(members, f.trial_id)
                                    ELSE members,
                                !.pc = "intermediate"]]
    /\ UNCHANGED <<projected, comm, nbrs, cache>>

(* Lines 149-153 *)
GetIntermediate(p) ==
    LET f == proc[p] IN
    /\ f.pc = "intermediate"
    /\ proc' = [proc EXCEPT ![p] =
                   [f EXCEPT !.intermediate_sims =
                                 get_intermediate_similarities(
                                     View(p), f.trial_id, f.community_members),
                             !.similarities = <<>>,
                             !.i = 1,
                             !.pc = IF f.community_members = <<>>
                                    THEN "return" ELSE "cached"]]
    /\ UNCHANGED <<projected, comm, nbrs, cache>>

(* A return that slices the list before it sorts it *)
ReturnSlicesFirst(p) ==
    LET f == proc[p] IN
    /\ f.pc = "return"
    /\ cache' = Overlay(cache, f.txw)
    /\ proc' = [proc EXCEPT ![p] =
                   Finished(f, SortDesc(Truncate(f.similarities, f.top_k)), "ok")]
    /\ UNCHANGED <<projected, comm, nbrs>>

(* Lines 157-158, and the end of the transaction of line 192 *)
Return(p) ==
    LET f == proc[p] IN
    /\ f.pc = "return"
    /\ cache' = Overlay(cache, f.txw)
    /\ proc' = [proc EXCEPT ![p] =
                   Finished(f, Truncate(SortDesc(f.similarities), f.top_k), "ok")]
    /\ UNCHANGED <<projected, comm, nbrs>>

(* Lines 200-203: a store call of the query fails; the transaction is      *)
(* rolled back.                                                            *)
Abort(p) ==
    LET f == proc[p] IN
    /\ InQuery(f)
    /\ proc' = [proc EXCEPT ![p] = Finished(f, <<>>, "error")]
    /\ UNCHANGED <<projected, comm, nbrs, cache>>

(* Lines 194-205: the results are printed and the run ends; the client is  *)
(* free for its next call.                                                 *)
Exit(p) ==
    /\ proc[p].pc = "done"
    /\ proc' = [proc EXCEPT ![p] = IdleFrame]
    /\ UNCHANGED <<projected, comm, nbrs, cache>>

----------------------------------------------------------------------------
(* compute_optimized_jaccard *)

(* A lookup whose hit is ignored: the score is computed again *)
CachedRecomputes(p) ==
    LET f == proc[p] IN
    /\ f.pc = "cached"
    /\ proc' = [proc EXCEPT ![p] = [f EXCEPT !.pc = "neighbors1"]]
    /\ UNCHANGED <<projected, comm, nbrs, cache>>

(* Lines 104-106 *)
Cached(p) ==
    LET f == proc[p]
        cached_sim == get_cached_similarity(View(p), Trial1(f), Trial2(f))
    IN /\ f.pc = "cached"
       /\ proc' = [proc EXCEPT ![p] =
                      IF cached_sim # None
                      THEN NextMember(f, cached_sim)
                      ELSE [f EXCEPT !.pc = "neighbors1"]]
       /\ UNCHANGED <<projected, comm, nbrs, cache>>

(* Line 108 *)
Neighbors1(p) ==
    LET f == proc[p] IN
    /\ f.pc = "neighbors1"
    /\ proc' = [proc EXCEPT ![p] =
                   [f EXCEPT !.neighbors1 = get_node_neighbors(Trial1(f)),
                             !.pc = "neighbors2"]]
    /\ UNCHANGED <<projected, comm, nbrs, cache>>

(* A second lookup that asks for the neighbours of trial1 again *)
Neighbors2OfTrial1(p) ==
    LET f == proc[p] IN
    /\ f.pc = "neighbors2"
    /\ proc' = [proc EXCEPT ![p] =
                   Jaccard([f EXCEPT !.neighbors1 = {}],
                           f.neighbors1, get_node_neighbors(Trial1(f)))]
    /\ UNCHANGED <<projected, comm, nbrs, cache>>

(* Lines 109-124 *)
Neighbors2(p) ==
    LET f == proc[p] IN
    /\ f.pc = "neighbors2"
    /\ proc' = [proc EXCEPT ![p] =
                   Jaccard([f EXCEPT !.neighbors1 = {}],
                           f.neighbors1, get_node_neighbors(Trial2(f)))]
    /\ UNCHANGED <<projected, comm, nbrs, cache>>

(* A lookup of line 127 that takes every member missing from               *)
(* intermediate_sims as not cached                                         *)
IntermediateNoFallback(p) ==
    LET f == proc[p] IN
    /\ f.pc = "inter"
    /\ proc' = [proc EXCEPT ![p] = BoostLoop(f, f.j + 1)]
    /\ UNCHANGED <<projected, comm, nbrs, cache>>

(* Lines 127-129 *)
Intermediate(p) ==
    LET f == proc[p]
        sim_to_intermediate ==
            get_cached_similarity(View(p), Trial1(f), f.community_members[f.j])
    IN /\ f.pc = "inter"
       /\ proc' = [proc EXCEPT ![p] =
                      IF sim_to_intermediate = None
                      THEN BoostLoop(f, f.j + 1)
                      ELSE [f EXCEPT !.sim_to_intermediate = sim_to_intermediate,
                                     !.pc = "other"]]
       /\ UNCHANGED <<projected, comm, nbrs, cache>>

(* A lookup of line 131 that boosts with the score of the first end when   *)
(* the second end has none cached                                          *)
OtherBoostsMissing(p) ==
    LET f == proc[p]
        other_sim ==
            get_cached_similarity(View(p), Trial2(f), f.community_members[f.j])
    IN /\ f.pc = "other"
       /\ proc' = [proc EXCEPT ![p] =
                      BoostLoop(
                          [f EXCEPT !.boost_factor =
                              RAdd(f.boost_factor,
                                   Boost(f.sim_to_intermediate,
                                         IF other_sim # None THEN other_sim
                                         ELSE f.sim_to_intermediate))],
                          f.j + 1)]
       /\ UNCHANGED <<projected, comm, nbrs, cache>>

(* Lines 131-133 *)
Other(p) ==
    LET f == proc[p]
        other_sim ==
            get_cached_similarity(View(p), Trial2(f), f.community_members[f.j])
    IN /\ f.pc = "other"
       /\ proc' = [proc EXCEPT ![p] =
                      IF other_sim # None
                      THEN BoostLoop(
                               [f EXCEPT !.boost_factor =
                                   RAdd(f.boost_factor,
                                        Boost(f.sim_to_intermediate,
                                              other_sim))],
                               f.j + 1)
                      ELSE BoostLoop(f, f.j + 1)]
       /\ UNCHANGED <<projected, comm, nbrs, cache>>

(* Lines 137-138 and 155 *)
Put(p) ==
    LET f == proc[p] IN
    /\ f.pc = "put"
    /\ proc' = [proc EXCEPT ![p] =
                   NextMember(
                       [f EXCEPT !.txw =
                           create_similarity_relationship(
                               f.txw, Trial1(f), Trial2(f), f.similarity)],
                       f.similarity)]
    /\ UNCHANGED <<projected, comm, nbrs, cache>>

(* Line 67: a call of create_similarity_relationship on its own, with any  *)
(* two different identifiers and any score; the query returns and nothing  *)
(* is raised, whether or not it matched.                                   *)
PutCall(p) ==
    /\ proc[p].pc = "idle"
    /\ \E trial1 \in Inputs :
       \E trial2 \in Inputs \ {trial1}, similarity \in Scores :
          /\ cache' = create_similarity_relationship(
                          cache, trial1, trial2, similarity)
          /\ proc' = [proc EXCEPT ![p] =
                         [IdleFrame EXCEPT !.pc = "done", !.op = "put",
                                           !.trial_id = trial1,
                                           !.trial2 = trial2,
                                           !.similarity = similarity,
                                           !.outcome = "ok"]]
    /\ UNCHANGED <<projected, comm, nbrs>>

----------------------------------------------------------------------------

Step(p) ==
    \/ MainCluster(p)
    \/ MainQuery(p)
    \/ Call(p)
    \/ GetCommunity(p)
    \/ GetMembers(p)
    \/ GetIntermediate(p)
    \/ Cached(p)
    \/ Neighbors1(p)
    \/ Neighbors2(p)
    \/ Intermediate(p)
    \/ Other(p)
    \/ Put(p)
    \/ Return(p)
    \/ Exit(p)

(* One client, calling again and again *)
Next == Step("p")

Spec == Init /\ [][Next]_vars

(* A store clustered into one community, and a client that calls the       *)
(* functions of the file directly: find_similar_trials_optimized, and      *)
(* create_similarity_relationship on its own.                              *)
InitPut ==
    /\ projected = TRUE
    /\ comm = [n \in Subjects |-> 1]
    /\ nbrs \in [Subjects -> SUBSET Objects]
    /\ cache = NoEdges
    /\ proc = [p \in Procs |-> IdleFrame]

Query(p) ==
    \/ Call(p)
    \/ GetCommunity(p)
    \/ GetMembers(p)
    \/ GetIntermediate(p)
    \/ Cached(p)
    \/ Neighbors1(p)
    \/ Neighbors2(p)
    \/ Intermediate(p)
    \/ Other(p)
    \/ Put(p)
    \/ Return(p)
    \/ Exit(p)

NextPut == Query("p") \/ PutCall("p")

SpecPut == InitPut /\ [][NextPut]_vars

(* The same, with store calls that may fail *)
NextFail == Step("p") \/ Abort("p")

SpecFail == Init /\ [][NextFail]_vars

(* Every client runs main once, all at the same time, and stops *)
MainStep(p) ==
    \/ MainCluster(p)
    \/ MainQuery(p)
    \/ GetCommunity(p)
    \/ GetMembers(p)
    \/ GetIntermediate(p)
    \/ Cached(p)
    \/ Neighbors1(p)
    \/ Neighbors2(p)
    \/ Intermediate(p)
    \/ Other(p)
    \/ Put(p)
    \/ Return(p)

NextConc == \E p \in Procs : MainStep(p)

InitConc ==
    /\ Init
    /\ nbrs[<<"A">>] = {"x"}
    /\ nbrs[<<"B">>] \in {{}, {"y"}}
    /\ nbrs[<<"C">>] \in {{}, {"x", "y"}}

SpecConc == InitConc /\ [][NextConc]_vars

(* The stores of Init and one more, with three neighbours: N(A) = {x, y}, *)
(* N(B) = {y, z}, N(C) = {}.                                               *)
ExampleNbrs ==
    [n \in Subjects |->
        IF n = <<"A">> THEN {"x", "y"}
        ELSE IF n = <<"B">> THEN {"y", "z"}
        ELSE {}]

InitExample ==
    /\ projected = FALSE
    /\ comm = [n \in Subjects |-> NoCommunity]
    /\ nbrs \in [Subjects -> SUBSET Objects] \cup {ExampleNbrs}
    /\ cache = NoEdges
    /\ proc = [p \in Procs |-> IdleFrame]

SpecExample == InitExample /\ [][Next]_vars

(* The store of InitPut and a client that only queries *)
NextQuery == Query("p")

SpecQuery == InitPut /\ [][NextQuery]_vars

----------------------------------------------------------------------------
(* A whole call of find_similar_trials_optimized as a function of the      *)
(* edges it reads, for a client that runs alone.                           *)

(* Lines 119-133: the boost of the members from position j on *)
RECURSIVE BoostFrom(_, _, _, _, _, _)
BoostFrom(edges, intermediate_sims, trial1, trial2, community_members, j) ==
    IF j > Len(community_members) THEN Zero
    ELSE LET intermediate_trial == community_members[j]
             rest == BoostFrom(edges, intermediate_sims, trial1, trial2,
                               community_members, j + 1)
             sim_to_intermediate ==
                 IF intermediate_trial \in DOMAIN intermediate_sims
                 THEN intermediate_sims[intermediate_trial]
                 ELSE get_cached_similarity(edges, trial1, intermediate_trial)
             other_sim == get_cached_similarity(edges, trial2, intermediate_trial)
         IN IF intermediate_trial \in {trial1, trial2} THEN rest
            ELSE IF sim_to_intermediate = None THEN rest
            ELSE IF other_sim = None THEN rest
            ELSE RAdd(Boost(sim_to_intermediate, other_sim), rest)

(* Lines 108-135: the score of a pair that is not cached *)
FreshScore(edges, intermediate_sims, trial1, trial2, community_members) ==
    LET neighbors1 == get_node_neighbors(trial1)
        neighbors2 == get_node_neighbors(trial2)
        intersection == neighbors1 \cap neighbors2
        union == neighbors1 \cup neighbors2
    IN IF Cardinality(union) = 0 THEN Zero
       ELSE FinalScore(Norm(Cardinality(intersection), Cardinality(union)),
                       BoostFrom(edges, intermediate_sims, trial1, trial2,
                                 community_members, 1))

(* Lines 153-155: the loop over the members from position i on; the edges  *)
(* and the scores at the end of the loop.                                  *)
RECURSIVE MemberLoop(_, _, _, _, _, _)
MemberLoop(edges, intermediate_sims, trial_id, community_members, i, similarities) ==
    IF i > Len(community_members)
    THEN [edges |-> edges, similarities |-> similarities]
    ELSE LET other_trial == community_members[i]
             cached_sim == get_cached_similarity(edges, trial_id, other_trial)
             similarity ==
                 IF cached_sim # None THEN cached_sim
                 ELSE FreshScore(edges, intermediate_sims, trial_id, other_trial,
                                 community_members)
         IN MemberLoop(
                IF cached_sim # None THEN edges
                ELSE create_similarity_relationship(
                         edges, trial_id, other_trial, similarity),
                intermediate_sims, trial_id, community_members, i + 1,
                Append(similarities,
                       [trial |-> other_trial, similarity |-> similarity]))

(* Lines 149-155 *)
FindRun(edges, trial_id, community_members) ==
    MemberLoop(edges,
               get_intermediate_similarities(edges, trial_id, community_members),
               trial_id, community_members, 1, <<>>)

(* The call taken one store call at a time ends where the call taken as a  *)
(* whole ends: the same scores and the same edges.                         *)
FindRunAgrees ==
    \A p \in Procs :
        LET f == proc[p] IN
        f.pc = "return"
            => LET run == FindRun(cache, f.trial_id, f.community_members)
               IN /\ run.similarities = f.similarities
                  /\ run.edges = View(p)

----------------------------------------------------------------------------
(* Properties *)

Reverse(e) == <<e[2], e[1]>>
InUnit(x) == RLeq(Zero, x) /\ RLeq(x, One)
IsQuery(f) == f.op \in {"find", "main"}
Last(s) == s[Len(s)]

(* C1: in the committed cache and in the writes of every open transaction, *)
(* the pair (a, b) holds a score exactly when (b, a) holds the same score, *)
(* whatever the interleaving of the clients.                               *)
CacheSymmetry ==
    \A e \in Pairs :
        /\ cache[e] = cache[Reverse(e)]
        /\ \A p \in Procs : proc[p].txw[e] = proc[p].txw[Reverse(e)]

(* Committed scores exist while another client is in the middle of a       *)
(* query with writes of its own.                                           *)
CacheSymmetryWitness ==
    \E p \in Procs, e \in Pairs :
        /\ e[1] # e[2]
        /\ cache[e] # None
        /\ InQuery(proc[p])
        /\ proc[p].txw # NoEdges
        /\ proc[p].txw[e] = None

(* C2: every score in the cache, in a transaction's writes, computed by    *)
(* compute_optimized_jaccard or returned in a result lies in [0.0, 1.0].   *)
ScoresBounded ==
    /\ \A e \in Pairs : cache[e] # None => InUnit(cache[e])
    /\ \A p \in Procs :
          LET f == proc[p] IN
          /\ \A e \in Pairs : f.txw[e] # None => InUnit(f.txw[e])
          /\ IsQuery(f) /\ f.similarity # None => InUnit(f.similarity)
          /\ \A n \in 1..Len(f.similarities) : InUnit(f.similarities[n].similarity)
          /\ \A n \in 1..Len(f.result) : InUnit(f.result[n].similarity)

(* A base score and a boost that add up to more than 1.0 were capped.      *)
ScoresBoundedWitness ==
    \E p \in Procs :
        /\ proc[p].pc = "put"
        /\ RLess(Zero, proc[p].boost_factor)
        /\ RLess(One, RAdd(proc[p].base_jaccard, proc[p].boost_factor))
        /\ proc[p].similarity = One

(* C3: a lookup that finds the pair cached hands back the cached score:    *)
(* the score is appended as it is, the next store call is the lookup of    *)
(* the next member or the return, never a neighbour lookup, and neither    *)
(* the cache nor the writes of the transaction change.                     *)
CacheAuthority ==
    [][\A p \in Procs :
          LET f == proc[p]
              g == proc'[p]
          IN (/\ f.pc = "cached"
              /\ get_cached_similarity(View(p), Trial1(f), Trial2(f)) # None
              /\ g # f)
             => /\ g.pc \in {"cached", "return"}
                /\ g.similarities =
                       Append(f.similarities,
                              [trial |-> Trial2(f),
                               similarity |-> View(p)[<<Trial1(f), Trial2(f)>>]])
                /\ g.txw = f.txw
                /\ cache' = cache]_vars

(* A hit has just handed back a score that a fresh computation would no    *)
(* longer give: the score is the bare Jaccard base, below 1.0, and by now   *)
(* a third member is cached against both ends with positive scores.        *)
CacheAuthorityWitness ==
    \E p \in Procs :
        LET f == proc[p] IN
        /\ f.pc \in {"cached", "return"}
        /\ f.similarities # <<>>
        /\ LET t1 == f.trial_id
               t2 == Last(f.similarities).trial
               s == Last(f.similarities).similarity
               union == nbrs[t1] \cup nbrs[t2]
           IN /\ f.txw[<<t1, t2>>] = None
              /\ cache[<<t1, t2>>] = s
              /\ union # {}
              /\ s = Norm(Cardinality(nbrs[t1] \cap nbrs[t2]), Cardinality(union))
              /\ RLess(s, One)
              /\ \E m \in Range(f.community_members) \ {t2} :
                    /\ View(p)[<<t1, m>>] # None
                    /\ View(p)[<<t2, m>>] # None
                    /\ RLess(Zero, View(p)[<<t1, m>>])
                    /\ RLess(Zero, View(p)[<<t2, m>>])

(* C4: a query that returns hands back at most top_k entries (at most 10   *)
(* when run from main, which leaves top_k to its default).                 *)
TopKLength ==
    \A p \in Procs :
        LET f == proc[p] IN
        (f.pc = "done" /\ IsQuery(f) /\ f.outcome = "ok")
            => /\ Len(f.result) <= f.top_k
               /\ f.op = "main" => Len(f.result) <= DefaultTopK

(* More members were scored than top_k allows, and the result was cut.     *)
TopKLengthWitness ==
    \E p \in Procs :
        LET f == proc[p] IN
        /\ f.pc = "done" /\ IsQuery(f) /\ f.outcome = "ok"
        /\ Len(f.similarities) > f.top_k
        /\ f.top_k > 0
        /\ Len(f.result) = f.top_k

(* C5, as claimed: the result is strictly descending by score.             *)
TopKStrictlyDescending ==
    \A p \in Procs :
        LET f == proc[p] IN
        (f.pc = "done" /\ IsQuery(f) /\ f.outcome = "ok")
            => \A n \in 1..(Len(f.result) - 1) :
                   RLess(f.result[n + 1].similarity, f.result[n].similarity)

(* C5, amended: the result is descending by score, equal scores allowed:   *)
(* no entry scores less than the entry after it.                           *)
TopKDescending ==
    \A p \in Procs :
        LET f == proc[p] IN
        (f.pc = "done" /\ IsQuery(f) /\ f.outcome = "ok")
            => \A n \in 1..(Len(f.result) - 1) :
                   RLeq(f.result[n + 1].similarity, f.result[n].similarity)

(* The members were scored in ascending order and the result holds both.   *)
TopKDescendingWitness ==
    \E p \in Procs :
        LET f == proc[p] IN
        /\ f.pc = "done" /\ IsQuery(f) /\ f.outcome = "ok"
        /\ Len(f.similarities) = 2
        /\ RLess(f.similarities[1].similarity, f.similarities[2].similarity)
        /\ Len(f.result) = 2

(* C6: the member list of a query never holds the query entity, no entry   *)
(* of the scores or of the result is the query entity, and no pair (a, a)  *)
(* is written, to the cache or to a transaction.                           *)
SelfExclusion ==
    /\ \A a \in Subjects : cache[<<a, a>>] = None
    /\ \A p \in Procs :
          LET f == proc[p] IN
          /\ IsQuery(f) => f.trial_id \notin Range(f.community_members)
          /\ \A n \in 1..Len(f.similarities) :
                f.similarities[n].trial # f.trial_id
          /\ \A n \in 1..Len(f.result) : f.result[n].trial # f.trial_id
          /\ \A a \in Subjects : f.txw[<<a, a>>] = None

(* A score is about to be written for a query entity that the store lists  *)
(* among the members of its own community.                                 *)
SelfExclusionWitness ==
    \E p \in Procs :
        LET f == proc[p] IN
        /\ f.pc = "put"
        /\ f.trial_id \in get_community_members(f.community_id)
        /\ Len(f.community_members) = 2

(* C7: the query of an existing entity without a community ends at its     *)
(* first store call: it returns the empty sequence, no error, no neighbour *)
(* lookup, and nothing is written to the cache or to the transaction.      *)
NoCommunityEmpty ==
    [][\A p \in Procs :
          LET f == proc[p]
              g == proc'[p]
          IN (/\ f.pc = "community"
              /\ f.trial_id \in Subjects
              /\ comm[f.trial_id] = NoCommunity
              /\ g # f)
             => /\ g.pc = "done"
                /\ g.outcome = "ok"
                /\ g.result = <<>>
                /\ g.similarities = <<>>
                /\ g.txw = NoEdges
                /\ cache' = cache]_vars

(* An existing entity without a community was queried and the query        *)
(* returned the empty sequence.                                            *)
NoCommunityEmptyWitness ==
    \E p \in Procs :
        LET f == proc[p] IN
        /\ f.pc = "done" /\ f.op = "find" /\ f.outcome = "ok"
        /\ f.trial_id \in Subjects
        /\ comm[f.trial_id] = NoCommunity
        /\ f.result = <<>>

(* C8: when check_node_exists is false for the identifier typed, main ends *)
(* with the unknown-entity message: the query is not started and the cache *)
(* is left as it was.                                                      *)
UnknownEntityEnds ==
    [][\A p \in Procs :
          LET f == proc[p]
              g == proc'[p]
          IN (/\ f.pc = "input"
              /\ g # f
              /\ ~check_node_exists(g.trial_id))
             => /\ g.pc = "done"
                /\ g.outcome = "unknown"
                /\ g.result = <<>>
                /\ g.txw = NoEdges
                /\ cache' = cache]_vars

(* main ended with the unknown-entity message over a cache that holds      *)
(* scores.                                                                 *)
UnknownEntityEndsWitness ==
    \E p \in Procs :
        /\ proc[p].pc = "done"
        /\ proc[p].op = "main"
        /\ proc[p].outcome = "unknown"
        /\ proc[p].trial_id = UnknownId
        /\ \E e \in Pairs : cache[e] # None

(* C9, as claimed: a call of create_similarity_relationship with an        *)
(* endpoint that is no SubjectNode ends in a NotFound outcome and writes   *)
(* nothing.                                                                *)
PutToMissingEndpointFails ==
    [][\A p \in Procs :
          LET f == proc[p]
              g == proc'[p]
          IN (/\ f.pc = "idle"
              /\ g.op = "put"
              /\ (g.trial_id \notin Subjects \/ g.trial2 \notin Subjects))
             => /\ g.outcome = "NotFound"
                /\ cache' = cache]_vars

(* C10: a pair whose neighbour sets are both empty is scored, and written, *)
(* as exactly 0.0, whatever is cached for the other members.               *)
EmptyUnionZero ==
    \A p \in Procs :
        LET f == proc[p] IN
        /\ (/\ f.pc = "put"
            /\ nbrs[Trial1(f)] = {}
            /\ nbrs[Trial2(f)] = {})
           => f.similarity = Zero
        /\ \A e \in Pairs :
              (f.txw[e] # None /\ nbrs[e[1]] = {} /\ nbrs[e[2]] = {})
                  => f.txw[e] = Zero

(* 0.0 is about to be written for a pair without neighbours while a third  *)
(* member is cached against both ends with positive scores.                *)
EmptyUnionZeroWitness ==
    \E p \in Procs :
        LET f == proc[p] IN
        /\ f.pc = "put"
        /\ nbrs[Trial1(f)] = {}
        /\ nbrs[Trial2(f)] = {}
        /\ f.similarity = Zero
        /\ \E m \in Range(f.community_members) \ {Trial2(f)} :
              /\ View(p)[<<Trial1(f), m>>] # None
              /\ View(p)[<<Trial2(f), m>>] # None
              /\ RLess(Zero, View(p)[<<Trial1(f), m>>])
              /\ RLess(Zero, View(p)[<<Trial2(f), m>>])

(* The plain Jaccard score of two subjects, 0.0 for an empty union *)
BaseJaccard(trial1, trial2) ==
    LET union == nbrs[trial1] \cup nbrs[trial2] IN
    IF union = {} THEN Zero
    ELSE Norm(Cardinality(nbrs[trial1] \cap nbrs[trial2]), Cardinality(union))

(* The members through which a pair is boosted: those with a score cached  *)
(* against both ends.                                                      *)
Boosters(edges, trial1, trial2, members) ==
    {m \in members \ {trial1, trial2} :
        edges[<<trial1, m>>] # None /\ edges[<<trial2, m>>] # None}

(* The sum of 0.1 * min(sim(trial1, m), sim(trial2, m)) over a set of      *)
(* members                                                                  *)
RECURSIVE BoostSum(_, _, _, _)
BoostSum(edges, trial1, trial2, members) ==
    IF members = {} THEN Zero
    ELSE LET m == CHOOSE x \in members : TRUE IN
         RAdd(RTenth(RMin(edges[<<trial1, m>>], edges[<<trial2, m>>])),
              BoostSum(edges, trial1, trial2, members \ {m}))

(* min(1.0, base + boost) of the pair a client is computing *)
BasePlusBoost(p) ==
    LET f == proc[p] IN
    RMin(One,
         RAdd(BaseJaccard(Trial1(f), Trial2(f)),
              BoostSum(View(p), Trial1(f), Trial2(f),
                       Boosters(View(p), Trial1(f), Trial2(f),
                                Range(f.community_members)))))

(* C11 as stated: the score computed for every uncached pair is            *)
(* min(1.0, base + boost), the boost being added to a base of 0.0 also     *)
(* when the union of the neighbour sets is empty.                          *)
ScoreIsBasePlusBoost ==
    \A p \in Procs :
        proc[p].pc = "put" => proc[p].similarity = BasePlusBoost(p)

(* C11 amended: the score computed for an uncached pair is                 *)
(* min(1.0, base + boost) when the union of the two neighbour sets is not  *)
(* empty, the boost summing 0.1 * min(sim(a, m), sim(b, m)) over the       *)
(* members m other than a and b with both scores available; it is 0.0,     *)
(* with no boost, when the union is empty.                                 *)
ScoreFormula ==
    \A p \in Procs :
        LET f == proc[p] IN
        f.pc = "put"
            => f.similarity =
                   IF nbrs[Trial1(f)] \cup nbrs[Trial2(f)] = {}
                   THEN Zero
                   ELSE BasePlusBoost(p)

(* A boosted score below the cap is about to be written, one of the        *)
(* scores of the boost having been written by this same call.              *)
ScoreFormulaWitness ==
    \E p \in Procs :
        LET f == proc[p] IN
        /\ f.pc = "put"
        /\ nbrs[Trial1(f)] \cup nbrs[Trial2(f)] # {}
        /\ RLess(BaseJaccard(Trial1(f), Trial2(f)), f.similarity)
        /\ RLess(f.similarity, One)
        /\ \E m \in Boosters(View(p), Trial1(f), Trial2(f),
                             Range(f.community_members)) :
              m \notin DOMAIN f.intermediate_sims

(* The place of entry i in the stable descending sort of a list: after    *)
(* every entry with a higher score and after the earlier entries with the  *)
(* same score.                                                             *)
StablePlace(similarities, i) ==
    Cardinality({j \in 1..Len(similarities) :
                    RLess(similarities[i].similarity,
                          similarities[j].similarity)})
    + Cardinality({j \in 1..(i - 1) :
                      similarities[j].similarity = similarities[i].similarity})
    + 1

(* C12: the sequence a query returns is the first top_k entries of the     *)
(* stable descending sort of the members of the query's community, query   *)
(* removed, in the order the store returned them: every entry stands at    *)
(* its place in that sort, scores are non-increasing, an omitted member    *)
(* scores no higher than a returned one, equal scores keep store order.    *)
RankedAsStableSort ==
    \A p \in Procs :
        LET f == proc[p]
            n == Len(f.similarities)
        IN (f.pc = "done" /\ IsQuery(f) /\ f.outcome = "ok")
            => /\ Range(f.community_members) =
                      IF f.trial_id \in Subjects
                      THEN {m \in Subjects \ {f.trial_id} :
                               /\ comm[m] # NoCommunity
                               /\ comm[m] = comm[f.trial_id]}
                      ELSE {}
               /\ Len(f.community_members) = n
               /\ \A i \in 1..n : f.similarities[i].trial = f.community_members[i]
               /\ Len(f.result) = IF f.top_k < n THEN f.top_k ELSE n
               /\ \A i \in 1..n :
                     StablePlace(f.similarities, i) <= Len(f.result)
                         => f.result[StablePlace(f.similarities, i)]
                                = f.similarities[i]
               /\ \A i \in 1..n :
                     StablePlace(f.similarities, i) > Len(f.result)
                         => \A k \in 1..Len(f.result) :
                               RLeq(f.similarities[i].similarity,
                                    f.result[k].similarity)

(* Two members with the same score and top_k = 1: the one the store        *)
(* returned first is the one returned, the other is left out.              *)
RankedAsStableSortWitness ==
    \E p \in Procs :
        LET f == proc[p] IN
        /\ f.pc = "done"
        /\ IsQuery(f)
        /\ f.outcome = "ok"
        /\ f.top_k = 1
        /\ Len(f.similarities) = 2
        /\ f.similarities[1].similarity = f.similarities[2].similarity
        /\ f.result = <<f.similarities[1]>>

(* The members a query of trial_id iterates over, as a set *)
MembersOf(trial_id) ==
    {m \in Subjects \ {trial_id} :
        comm[m] # NoCommunity /\ comm[m] = comm[trial_id]}

(* The score cached for the pair (b, c) by a query of b that runs first,   *)
(* from the empty cache, with the members in a given order                 *)
FirstQueryScore(b, c, order) == FindRun(NoEdges, b, order).edges[<<b, c>>]

(* C13: with the neighbour sets and the community fixed, the score cached  *)
(* for a pair depends on the sequence of queries run from the empty cache  *)
(* only through the boost: a cached score other than the plain Jaccard     *)
(* score of the pair lies above it, and some third member is cached with   *)
(* positive scores against both ends.                                      *)
OrderDependenceThroughBoost ==
    \A b \in Subjects : \A c \in Subjects \ {b} :
        (cache[<<b, c>>] # None /\ cache[<<b, c>>] # BaseJaccard(b, c))
            => /\ RLess(BaseJaccard(b, c), cache[<<b, c>>])
               /\ \E m \in Subjects \ {b, c} :
                     /\ cache[<<b, m>>] # None
                     /\ cache[<<c, m>>] # None
                     /\ RLess(Zero, cache[<<b, m>>])
                     /\ RLess(Zero, cache[<<c, m>>])

(* Two sequences of queries from the empty cache end with different scores *)
(* for the same pair: the sequence that led here cached a score for (b, c) *)
(* that the sequence starting with the query of b does not cache,          *)
(* whatever the order of the members.                                      *)
OrderDependenceWitness ==
    \E b \in Subjects : \E c \in MembersOf(b) :
        /\ cache[<<b, c>>] # None
        /\ \A order \in Perms(MembersOf(b)) :
              cache[<<b, c>>] # FirstQueryScore(b, c, order)

(* The scores of a list of entries as a set of (member, score) pairs *)
ScoreSet(similarities) ==
    {<<similarities[n].trial, similarities[n].similarity>> :
        n \in 1..Len(similarities)}

(* C14 as stated: within one call of find_similar_trials_optimized, from   *)
(* any reachable cache, the score of every member and the cache after the  *)
(* call do not depend on the order in which the members are processed:     *)
(* the call run on the same cache with the members in any other order      *)
(* ends with the same scores and the same edges.                           *)
WithinCallOrderIndependent ==
    \A p \in Procs :
        LET f == proc[p] IN
        (f.pc = "return" /\ IsQuery(f))
            => \A order \in Perms(Range(f.community_members)) :
                   LET run == FindRun(cache, f.trial_id, order) IN
                   /\ ScoreSet(run.similarities) = ScoreSet(f.similarities)
                   /\ run.edges = View(p)

(* C15: with no other client writing, a score computed with the map       *)
(* intermediate_sims read before the loop, and the cache for the members   *)
(* missing from it, is the score computed with every sim(a, m) of the      *)
(* boost read from the cache at that moment: the value taken from the map  *)
(* is the one the cache holds, and the score about to be written is the    *)
(* score of the same pair computed with an empty map.                      *)
PrecomputedMapEquivalent ==
    \A p \in Procs :
        LET f == proc[p] IN
        /\ f.pc = "other"
              => f.sim_to_intermediate =
                     get_cached_similarity(View(p), Trial1(f),
                                           f.community_members[f.j])
        /\ f.pc = "put"
              => f.similarity =
                     FreshScore(View(p), EmptyMap, Trial1(f), Trial2(f),
                                f.community_members)

(* A score is about to be written with a positive boost through a member   *)
(* whose score against the query came from the map.                        *)
PrecomputedMapEquivalentWitness ==
    \E p \in Procs :
        LET f == proc[p] IN
        /\ f.pc = "put"
        /\ RLess(BaseJaccard(Trial1(f), Trial2(f)), f.similarity)
        /\ \E m \in DOMAIN f.intermediate_sims :
              /\ m \in Boosters(View(p), Trial1(f), Trial2(f),
                                Range(f.community_members))
              /\ RLess(Zero, f.intermediate_sims[m])

(* C16: across a sequential run of queries and clusterings, a cached      *)
(* score, once written, is never deleted and never changes, and a          *)
(* clustering changes the community assignments only: it leaves every      *)
(* cached score and every neighbour set as it was.                         *)
CachePersistent ==
    [][/\ \A e \in Pairs : cache[e] # None => cache'[e] = cache[e]
       /\ \A p \in Procs :
             (proc[p].pc = "idle" /\ proc'[p].pc = "input")
                 => cache' = cache /\ nbrs' = nbrs]_vars

(* A score is cached for two subjects that a later clustering has put in   *)
(* different communities.                                                  *)
CachePersistentWitness ==
    \E e \in Pairs :
        /\ cache[e] # None
        /\ comm[e[1]] # comm[e[2]]

(* No score is cached between two members of the list a client iterates  *)
(* over.                                                                   *)
NoMemberPairCached(f) ==
    \A m1 \in Range(f.community_members) :
        \A m2 \in Range(f.community_members) \ {m1} :
            cache[<<m1, m2>>] = None

(* C17 as stated: when no score between two non-query members of the       *)
(* community is cached, one call of find_similar_trials_optimized gives    *)
(* every member exactly its plain Jaccard score with the query, 0.0 for    *)
(* an empty union.                                                         *)
ColdScoresPlainJaccard ==
    \A p \in Procs :
        LET f == proc[p] IN
        (f.pc = "return" /\ IsQuery(f) /\ NoMemberPairCached(f))
            => \A n \in 1..Len(f.similarities) :
                   f.similarities[n].similarity =
                       BaseJaccard(f.trial_id, f.similarities[n].trial)

(* C17 amended: when no score between two non-query members of the         *)
(* community is cached, one call gives every member whose score with the   *)
(* query was not cached before the call exactly its plain Jaccard score,   *)
(* 0.0 for an empty union, with no boost, the scores written earlier in    *)
(* the call being visible or not.                                          *)
ColdUncachedScoresPlainJaccard ==
    \A p \in Procs :
        LET f == proc[p] IN
        (f.pc = "return" /\ IsQuery(f) /\ NoMemberPairCached(f))
            => \A n \in 1..Len(f.similarities) :
                   cache[<<f.trial_id, f.similarities[n].trial>>] = None
                       => f.similarities[n].similarity =
                              BaseJaccard(f.trial_id, f.similarities[n].trial)

(* The query of A on the store N(A) = {x, y}, N(B) = {y, z}, N(C) = {},    *)
(* from the empty cache, has scored B at 1/3 and then C at 0.0, the score  *)
(* of B being written before C is scored.                                  *)
ColdUncachedScoresWitness ==
    \E p \in Procs :
        LET f == proc[p] IN
        /\ f.pc = "return"
        /\ nbrs = ExampleNbrs
        /\ cache = NoEdges
        /\ f.trial_id = <<"A">>
        /\ f.similarities =
               <<[trial |-> <<"B">>, similarity |-> Norm(1, 3)],
                 [trial |-> <<"C">>, similarity |-> Zero]>>
        /\ f.txw[<<<<"A">>, <<"B">>>>] = Norm(1, 3)

(* C18 as stated: when two concurrent queries both find a pair uncached    *)
(* and both compute and put it, the two puts write the same score: a score *)
(* a client has put in its transaction equals the score the other client   *)
(* has put, committed or not, for the same pair.                           *)
ConcurrentPutsAgree ==
    \A p \in Procs : \A e \in Pairs :
        proc[p].txw[e] # None
            => /\ cache[e] # None => proc[p].txw[e] = cache[e]
               /\ \A q \in Procs \ {p} :
                     proc[q].txw[e] # None => proc[q].txw[e] = proc[p].txw[e]

(* C18 amended: two concurrent queries that both find a pair uncached may  *)
(* put different scores for it; the put that is committed last decides:    *)
(* when a query commits, every pair it has put holds its score afterwards, *)
(* in both directions, whatever was cached before, and every other pair    *)
(* keeps the score it had.                                                 *)
LastPutWins ==
    [][\A p \in Procs :
          (proc[p].pc = "return" /\ proc'[p].pc = "done")
              => \A e \in Pairs :
                     IF proc[p].txw[e] # None
                     THEN /\ cache'[e] = proc[p].txw[e]
                          /\ cache'[Reverse(e)] = proc[p].txw[e]
                     ELSE cache'[e] = cache[e]]_vars

(* One query has committed a score for a pair that the other query found   *)
(* uncached and has put with a different score, and is about to commit.    *)
LastPutWinsWitness ==
    \E p \in Procs : \E e \in Pairs :
        /\ proc[p].pc = "return"
        /\ proc[p].txw[e] # None
        /\ cache[e] # None
        /\ cache[e] # proc[p].txw[e]

(* C19 as stated: if a query is aborted part-way through its loop, the     *)
(* cache entries it wrote for the members processed before the abort       *)
(* remain afterwards, they are not rolled back.                            *)
AbortKeepsWrites ==
    [][\A p \in Procs :
          (InQuery(proc[p]) /\ proc'[p].outcome = "error")
              => \A e \in Pairs :
                     proc[p].txw[e] # None => cache'[e] = proc[p].txw[e]]_vars

(* C20 as stated: for every identifier that check_node_exists accepts,    *)
(* the query that follows resolves the same entity: the identifier as      *)
(* typed and the identifier trimmed have the same community, and the       *)
(* query of the identifier as typed has returned what the query of the    *)
(* trimmed identifier returns, for some order in which the store returns   *)
(* the members.                                                            *)
PaddedResolvesSame ==
    \A p \in Procs :
        LET f == proc[p]
            trimmed == Strip(f.trial_id)
        IN /\ (f.op = "main" /\ f.pc = "community")
              => get_node_community(f.trial_id) = get_node_community(trimmed)
           /\ (f.op = "main" /\ f.pc = "done" /\ f.outcome = "ok")
              => \E order \in Perms(MembersOf(trimmed)) :
                     f.result =
                         Truncate(SortDesc(
                             FindRun(cache, trimmed, order).similarities),
                             f.top_k)

============================================================================
